---- MODULE Spec2Model ----
(***************************************************************************)
(* Overlay reconciliation of go/packages (golist_overlay.go).              *)
(*                                                                         *)
(* Strings are sequences of tokens: the import path "m/a" is <<"m","a">>,  *)
(* the package name "a_test" is <<"a","_test">>, the identifier            *)
(* "m/a [m/a.test]" is <<"m","a"," ","[","m","a",".test","]">>.  A file    *)
(* path is a record [dir, base]: filepath.Dir and filepath.Base project    *)
(* it.  A *Package pointer is an index into response.dr.Packages, 0 = nil. *)
(***************************************************************************)
EXTENDS Integers, Sequences, FiniteSets, TLC

VARIABLES
    pkgs,               \* response.dr.Packages
    overlay,            \* state.cfg.Overlay: file path -> contents
    goEnv,              \* what state.getEnv() yields in this session
    goList,             \* what `go list -m -json all` yields in this session
    rootsOnce,          \* state.rootsOnce: "new", "running", "done"
    rootDirs,           \* state.rootDirs
    rootDirsError,      \* state.rootDirsError ("" = nil)
    computed,           \* how many times a root computation has run
    pc,                 \* position of processGolistOverlay
    run,                \* number of the current call of processGolistOverlay
    before,             \* response.dr.Packages when the current call began
    todo,               \* overlay paths the range loop has not visited yet
    havePkgs,           \* importPath -> package ID
    modifiedPkgsSet,
    overlayAddsImports,
    fallbackImps,       \* import paths that took the `id = imp` branch
    modifiedPkgs,       \* returned slice
    needPkgs,           \* returned slice
    err,                \* returned error ("" = nil)
    cpc,                \* determineRootDirs callers: position
    cres,               \* determineRootDirs callers: returned (map, error)
    calls,              \* determineRootDirs callers: calls begun
    rin,                \* reclaimPackage harness: the arguments
    rout,               \* reclaimPackage harness: the outcome
    first,              \* the outcome of a call under one visiting order
    second              \* the outcome of the call under another order

vars == <<pkgs, overlay, goEnv, goList, rootsOnce, rootDirs, rootDirsError,
          computed, pc, run, before, todo, havePkgs, modifiedPkgsSet,
          overlayAddsImports, fallbackImps, modifiedPkgs, needPkgs, err,
          cpc, cres, calls, rin, rout, first, second>>

----------------------------------------------------------------------------
\* Bounds of the model.

MaxPkgs == 2

MaxOverlay == 2

MaxRuns == 2

NCallers == 2

MaxCalls == 2

----------------------------------------------------------------------------
\* Strings and maps.

NoErr == ""

EmptyMap == [x \in {} |-> x]

Put(m, k, v) == [x \in (DOMAIN m) \cup {k} |-> IF x = k THEN v ELSE m[x]]

Range(s) == {s[i] : i \in DOMAIN s}

HasPrefix(s, pre) ==
    /\ Len(pre) <= Len(s)
    /\ SubSeq(s, 1, Len(pre)) = pre

HasSuffix(s, suf) ==
    /\ Len(suf) <= Len(s)
    /\ SubSeq(s, Len(s) - Len(suf) + 1, Len(s)) = suf

IndexByte(s, c) ==
    IF \E i \in DOMAIN s : s[i] = c
    THEN CHOOSE i \in DOMAIN s : s[i] = c /\ \A j \in 1..(i - 1) : s[j] # c
    ELSE 0

Perms(S) == {s \in [1..Cardinality(S) -> S] : Range(s) = S}

Dir(f) == f.dir

Base(f) == f.base

sameFile(x, y) == x = y

----------------------------------------------------------------------------
\* The source inspector.  The contents of an overlay file are what the parser
\* sees in them: [pkgOk, pkgName, impOk, imports].

\* A parser that takes any contents to have a package clause.
extractPackageName_Lenient(contents) == [name |-> contents.pkgName, ok |-> TRUE]

extractPackageName(contents) ==
    IF contents.pkgOk
    THEN [name |-> contents.pkgName, ok |-> TRUE]
    ELSE [name |-> <<>>, ok |-> FALSE]

extractImports(contents) ==
    IF contents.pkgOk /\ contents.impOk
    THEN [imports |-> contents.imports, err |-> NoErr]
    ELSE [imports |-> <<>>, err |-> "parse"]

TestGoSuffix == <<"_test.go">>

TestSuffix == <<"_test">>

CommandLineArguments == <<"command-line-arguments">>

IsTestFileName(f) == HasSuffix(Dir(f) \o Base(f), TestGoSuffix)

hasTestFiles(p) == \E i \in DOMAIN p.GoFiles : IsTestFileName(p.GoFiles[i])

toPkgPath(id) ==
    LET i == IndexByte(id, " ")
    IN  IF i >= 1 THEN SubSeq(id, 1, i - 1) ELSE id

TestVariantID(pkgPath) == pkgPath \o <<" ", "[">> \o pkgPath \o <<".test", "]">>

NewPackage(pkgPath, id, pkgName) ==
    [ID |-> id, PkgPath |-> pkgPath, Name |-> pkgName, GoFiles |-> <<>>,
     CompiledGoFiles |-> <<>>, OtherFiles |-> <<>>, ExportFile |-> <<>>,
     Imports |-> EmptyMap, Errors |-> <<>>]

----------------------------------------------------------------------------
\* reclaimPackage: [ok, pkg], pkg being the candidate as the call leaves it.

\* `len(pkg.Errors) == 0` as the refusal test instead of `!= 1`.
ErrorCountReclaimable_AtLeastOne(n) == n >= 1

ErrorCountReclaimable(n) == n = 1

reclaimPackage(p, id, contents) ==
    LET refused == [ok |-> FALSE, pkg |-> p]
        parsed  == extractPackageName(contents)
    IN  IF p.ID # id THEN refused
        ELSE IF ~ErrorCountReclaimable(Len(p.Errors)) THEN refused
        ELSE IF p.Name # <<>> \/ p.ExportFile # <<>> THEN refused
        ELSE IF Len(p.GoFiles) > 0 \/ Len(p.CompiledGoFiles) > 0
                \/ Len(p.OtherFiles) > 0 THEN refused
        ELSE IF Cardinality(DOMAIN p.Imports) > 0 THEN refused
        ELSE IF ~parsed.ok THEN refused
        ELSE [ok |-> TRUE,
              pkg |-> [p EXCEPT !.Name = parsed.name, !.Errors = <<>>]]

----------------------------------------------------------------------------
\* The search for the home package of overlay file o (the nextPackage loop).
\* acc = [pkg, testVariantOf, fileExists]; i is the package, j the file of
\* its GoFiles the loop is at.

NoMatch == [pkg |-> 0, testVariantOf |-> 0, fileExists |-> FALSE]

\* The test variant, met first, not recognised when its base follows.
seenVariant_Never(P, acc, i) == FALSE

\* Lines 66-69: the package adopted so far is another package of the import
\* path of P[i] and has test files.
seenVariant(P, acc, i) ==
    /\ acc.pkg # 0
    /\ i # acc.pkg
    /\ P[acc.pkg].PkgPath = P[i].PkgPath
    /\ hasTestFiles(P[acc.pkg])

RECURSIVE nextPackage(_, _, _, _, _, _)
nextPackage(P, o, pkgName, i, j, acc) ==
    IF i > Len(P) THEN acc
    ELSE LET p == P[i] IN
    IF pkgName # p.Name /\ p.ID # CommandLineArguments
    THEN nextPackage(P, o, pkgName, i + 1, 1, acc)
    ELSE IF j > Len(p.GoFiles)
    THEN nextPackage(P, o, pkgName, i + 1, 1, acc)
    ELSE LET f == p.GoFiles[j] IN
    IF ~sameFile(Dir(f), Dir(o))
    THEN nextPackage(P, o, pkgName, i, j + 1, acc)
    ELSE IF IsTestFileName(o) /\ ~hasTestFiles(p)
    THEN nextPackage(P, o, pkgName, i + 1, 1, [acc EXCEPT !.testVariantOf = i])
    ELSE IF seenVariant(P, acc, i)
    THEN nextPackage(P, o, pkgName, i + 1, 1, [acc EXCEPT !.testVariantOf = i])
    ELSE LET tvo == IF /\ acc.pkg # 0
                       /\ i # acc.pkg
                       /\ P[acc.pkg].PkgPath = p.PkgPath
                       /\ hasTestFiles(p)
                    THEN acc.pkg
                    ELSE acc.testVariantOf
         IN  nextPackage(P, o, pkgName, i, j + 1,
                 [pkg |-> i,
                  testVariantOf |-> tvo,
                  fileExists |-> acc.fileExists \/ Base(f) = Base(o)])

FindPackage(P, o, pkgName) == nextPackage(P, o, pkgName, 1, 1, NoMatch)

----------------------------------------------------------------------------
\* The root directory resolver.  goEnv = [err, GOMOD, GOPATH], GOPATH being
\* the list filepath.SplitList makes of it; goList = [err, mods], each mod a
\* record [Path, Dir, bad], bad meaning that decoding it fails.

Abs(dir) == dir

NoRoots == [dirs |-> EmptyMap, err |-> NoErr]

RECURSIVE decodeMods(_, _, _)
decodeMods(mods, k, m) ==
    IF k > Len(mods) THEN [dirs |-> m, err |-> NoErr]
    ELSE IF mods[k].bad THEN [dirs |-> EmptyMap, err |-> "decode"]
    ELSE IF mods[k].Dir # <<>> /\ mods[k].Path # <<>>
    THEN decodeMods(mods, k + 1, Put(m, Abs(mods[k].Dir), mods[k].Path))
    ELSE decodeMods(mods, k + 1, m)

determineRootDirsModules(out) ==
    IF out.err # NoErr
    THEN [dirs |-> EmptyMap, err |-> out.err]
    ELSE decodeMods(out.mods, 1, EmptyMap)

RECURSIVE gopathRoots(_, _, _)
gopathRoots(list, k, m) ==
    IF k > Len(list) THEN [dirs |-> m, err |-> NoErr]
    ELSE gopathRoots(list, k + 1, Put(m, Abs(list[k]) \o <<"src">>, <<>>))

determineRootDirsGOPATH(env) == gopathRoots(env.GOPATH, 1, EmptyMap)

\* The function handed to rootsOnce.Do, chosen by GOMOD.
computeRoots(env, out) ==
    IF env.GOMOD # <<>>
    THEN determineRootDirsModules(out)
    ELSE determineRootDirsGOPATH(env)

\* A latch that lets in every caller that arrives before the function is done.
OnceRuns_Unlatched(once) == once # "done"

\* sync.Once: whether a caller arriving at Do runs the function.
OnceRuns(once) == once = "new"

\* determineRootDirs called from the single thread of processGolistOverlay:
\* the latch and the cached pair as the call leaves them, and what it returns.
determineRootDirs(env, out, once, dirs, derr, n) ==
    IF env.err # NoErr
    THEN [once |-> once, dirs |-> dirs, derr |-> derr, n |-> n,
          res |-> [dirs |-> EmptyMap, err |-> env.err]]
    ELSE IF OnceRuns(once)
    THEN LET r == computeRoots(env, out)
         IN  [once |-> "done", dirs |-> r.dirs, derr |-> r.err, n |-> n + 1,
              res |-> [dirs |-> r.dirs, err |-> r.err]]
    ELSE [once |-> once, dirs |-> dirs, derr |-> derr, n |-> n,
          res |-> [dirs |-> dirs, err |-> derr]]

\* getPkgPath: the import paths the roots give directory dir, one per root
\* that covers it (the code takes the first its map iteration meets).
getPkgPath(roots, dir) ==
    {roots[rdir] \o SubSeq(dir, Len(rdir) + 1, Len(dir)) :
        rdir \in {r \in DOMAIN roots : HasPrefix(Abs(dir), r)}}

----------------------------------------------------------------------------
\* Steps 4 and 5 of one overlay file, on package pkg (an index of P).

\* The import path taken as the identifier without consulting havePkgs.
stubID_PathOnly(have, imp) == imp

\* Lines 142-145: the identifier of the stub an import path is given.
stubID(have, imp) == IF imp \in DOMAIN have THEN have[imp] ELSE imp

RECURSIVE importLoop(_, _, _, _, _, _)
importLoop(st, have, pkg, testVariantOf, imports, k) ==
    IF k > Len(imports) THEN st
    ELSE LET imp == imports[k] IN
    IF imp \in DOMAIN st.pkgs[pkg].Imports
    THEN importLoop(st, have, pkg, testVariantOf, imports, k + 1)
    ELSE LET known == imp \in DOMAIN have
             id    == stubID(have, imp)
             P1    == [st.pkgs EXCEPT ![pkg].Imports = Put(@, imp, id)]
             P2    == IF testVariantOf # 0
                      THEN [P1 EXCEPT ![testVariantOf].Imports = Put(@, imp, id)]
                      ELSE P1
         IN  importLoop([pkgs |-> P2, adds |-> TRUE,
                         fallback |-> IF known THEN st.fallback
                                      ELSE st.fallback \cup {imp}],
                        have, pkg, testVariantOf, imports, k + 1)

\* An assignment of the one-file list instead of an append.
attachFile_Overwrite(P, pkg, fileExists, o) ==
    IF fileExists THEN P
    ELSE [P EXCEPT ![pkg].GoFiles = <<o>>,
                   ![pkg].CompiledGoFiles = <<o>>]

attachFile(P, pkg, fileExists, o) ==
    IF fileExists THEN P
    ELSE [P EXCEPT ![pkg].GoFiles = Append(@, o),
                   ![pkg].CompiledGoFiles = Append(@, o)]

\* The package marked modified whether or not the file was appended.
markModified_Always(P, pkg, fileExists) == {P[pkg].ID}

\* Line 127: the identifier marked modified by the attachment.
markModified(P, pkg, fileExists) == IF fileExists THEN {} ELSE {P[pkg].ID}

attachAndImport(P, have, pkg, testVariantOf, fileExists, o, contents) ==
    LET P1  == attachFile(P, pkg, fileExists, o)
        imp == extractImports(contents)
        st0 == [pkgs |-> P1, adds |-> FALSE, fallback |-> {}]
        st1 == IF imp.err # NoErr THEN st0
               ELSE importLoop(st0, have, pkg, testVariantOf, imp.imports, 1)
    IN  [pkgs |-> st1.pkgs, adds |-> st1.adds, fallback |-> st1.fallback,
         modified |-> markModified(P1, pkg, fileExists)]

\* Step 3: the package identity an overlay file of a new package gets.
isXTest(pkgName) == HasSuffix(pkgName, TestSuffix)

newPkgPath(pkgPath, pkgName) ==
    IF isXTest(pkgName) THEN pkgPath \o TestSuffix ELSE pkgPath

\* The identifier without the test-variant form.
newPkgID_NoVariant(pkgPath, pkgName, o) == newPkgPath(pkgPath, pkgName)

newPkgID(pkgPath, pkgName, o) ==
    IF IsTestFileName(o) /\ ~isXTest(pkgName)
    THEN TestVariantID(newPkgPath(pkgPath, pkgName))
    ELSE newPkgPath(pkgPath, pkgName)

\* No attempt at reclaiming.
reclaimIndex_Never(P, id, contents) == 0

\* The first package reclaimPackage accepts, 0 when it accepts none.
reclaimIndex(P, id, contents) ==
    LET ok == {i \in DOMAIN P : reclaimPackage(P[i], id, contents).ok}
    IN  IF ok = {} THEN 0 ELSE CHOOSE i \in ok : \A j \in ok : i <= j

addPackage(P, p) == Append(P, p)

\* Lines 95-121: the packages, the home package and havePkgs once the file's
\* package is reclaimed or created.
synthesize(P, have, testVariantOf, o, contents, rootPath) ==
    LET pkgName == extractPackageName(contents).name
        pkgPath == newPkgPath(rootPath, pkgName)
        id      == newPkgID(rootPath, pkgName, o)
        r       == reclaimIndex(P, id, contents)
        fresh   == NewPackage(pkgPath, id, pkgName)
        inherit == IsTestFileName(o) /\ ~isXTest(pkgName) /\ testVariantOf # 0
        filled  == IF inherit
                   THEN [fresh EXCEPT
                           !.GoFiles = @ \o P[testVariantOf].GoFiles,
                           !.CompiledGoFiles = @ \o P[testVariantOf].CompiledGoFiles]
                   ELSE fresh
    IN  IF r # 0
        THEN [pkgs |-> [P EXCEPT ![r] = reclaimPackage(P[r], id, contents).pkg],
              pkg |-> r, have |-> have]
        ELSE [pkgs |-> addPackage(P, filled), pkg |-> Len(P) + 1,
              have |-> Put(have, pkgPath, id)]

RECURSIVE buildHavePkgs(_, _, _)
buildHavePkgs(P, i, have) ==
    IF i > Len(P) THEN have
    ELSE buildHavePkgs(P, i + 1, Put(have, P[i].PkgPath, P[i].ID))

\* The needed pass with its havePkgs test inverted.
neededSet_Known(P, have) ==
    UNION {{toPkgPath(P[i].Imports[k]) :
               k \in {x \in DOMAIN P[i].Imports :
                         toPkgPath(P[i].Imports[x]) \in DOMAIN have}} :
           i \in DOMAIN P}

\* The needed pass without its havePkgs test.
neededSet_AllEdges(P, have) ==
    UNION {{toPkgPath(P[i].Imports[k]) : k \in DOMAIN P[i].Imports} :
           i \in DOMAIN P}

\* Lines 166-175.
neededSet(P, have) ==
    UNION {{toPkgPath(P[i].Imports[k]) :
               k \in {x \in DOMAIN P[i].Imports :
                         toPkgPath(P[i].Imports[x]) \notin DOMAIN have}} :
           i \in DOMAIN P}

\* The needed output filled whether or not the overlay added an import.
neededOut_Unconditional(adds, need) == Perms(need)

\* Lines 177-182: needPkgs stays nil unless the overlay added an import.
neededOut(adds, need) == IF adds THEN Perms(need) ELSE {<<>>}

----------------------------------------------------------------------------
\* The inputs of the model: sessions, loaded packages, overlays.

DirA == <<"r", "src", "a">>

DirB == <<"r", "src", "b">>

DirU == <<"u">>

File(dir, base) == [dir |-> dir, base |-> base]

ModuleEnv == [err |-> NoErr, GOMOD |-> <<"r", "src", "go.mod">>, GOPATH |-> <<<<"g">>>>]

LegacyEnv == [err |-> NoErr, GOMOD |-> <<>>, GOPATH |-> <<<<"r">>>>]

FailedEnv == [err |-> "env", GOMOD |-> <<>>, GOPATH |-> <<>>]

ModuleList ==
    [err |-> NoErr,
     mods |-> <<[Path |-> <<"m">>, Dir |-> <<"r", "src">>, bad |-> FALSE],
                [Path |-> <<"dep">>, Dir |-> <<>>, bad |-> FALSE]>>]

BadModuleList ==
    [err |-> NoErr, mods |-> <<[Path |-> <<"m">>, Dir |-> <<"r", "src">>, bad |-> TRUE]>>]

FailedList == [err |-> "list", mods |-> <<>>]

\* [env, out, prefix]: prefix is the import-path prefix of the loaded
\* packages, which the lister reports the way the session's mode names them.
Sessions ==
    {[env |-> ModuleEnv, out |-> ModuleList, prefix |-> <<"m">>],
     [env |-> ModuleEnv, out |-> FailedList, prefix |-> <<"m">>],
     [env |-> LegacyEnv, out |-> FailedList, prefix |-> <<>>]}

\* The sessions of the root directory resolver: those, and the ones whose
\* environment lookup or module listing fails in the other ways.
RootSessions ==
    Sessions \cup
    {[env |-> ModuleEnv, out |-> BadModuleList, prefix |-> <<"m">>],
     [env |-> FailedEnv, out |-> FailedList, prefix |-> <<"m">>]}

Loaded(id, pkgPath, name, files, imports, errors) ==
    [ID |-> id, PkgPath |-> pkgPath, Name |-> name, GoFiles |-> files,
     CompiledGoFiles |-> files, OtherFiles |-> <<>>, ExportFile |-> <<>>,
     Imports |-> imports, Errors |-> errors]

PathZ == <<"z">>

\* The identifier of the vendored copy of z, which the lister did not load.
VendoredZ(pre) == pre \o <<"vendor", "z">>

PkgUniverse(pre) ==
    LET pa == pre \o <<"a">>
        pb == pre \o <<"b">>
        aGo == File(DirA, <<"a", ".go">>)
        aTest == File(DirA, <<"a", "_test.go">>)
        newGo == File(DirA, <<"new", ".go">>)
    IN  {Loaded(pa, pa, <<"a">>, <<aGo>>, EmptyMap, <<>>),
         Loaded(pa, pa, <<"a">>, <<aGo>>, Put(EmptyMap, PathZ, VendoredZ(pre)), <<>>),
         Loaded(TestVariantID(pa), pa, <<"a">>, <<aGo, aTest>>, EmptyMap, <<>>),
         Loaded(CommandLineArguments, CommandLineArguments, <<"main">>,
                <<newGo>>, EmptyMap, <<>>),
         Loaded(<<"u">>, <<"u">>, <<"u">>, <<File(DirU, <<"lib", ".go">>)>>, EmptyMap, <<>>),
         Loaded(pb, pb, <<>>, <<>>, EmptyMap, <<"not found">>),
         Loaded(pb, pb, <<>>, <<>>, EmptyMap, <<"not found", "cycle">>)}

\* The loaded packages: each uniquely identified.
PkgLists(pre) ==
    {P \in UNION {[1..n -> PkgUniverse(pre)] : n \in 0..MaxPkgs} :
        \A i, j \in DOMAIN P : i # j => P[i].ID # P[j].ID}

Src(pkgName, imports) ==
    [pkgOk |-> TRUE, pkgName |-> pkgName, impOk |-> TRUE, imports |-> imports]

NoPackageClause == [pkgOk |-> FALSE, pkgName |-> <<>>, impOk |-> FALSE, imports |-> <<>>]

BadImports(pkgName) ==
    [pkgOk |-> TRUE, pkgName |-> pkgName, impOk |-> FALSE, imports |-> <<>>]

OverlayUniverse(pre) ==
    LET newGo == File(DirA, <<"new", ".go">>)
        xTest == File(DirA, <<"x", "_test.go">>)
    IN  {<<newGo, Src(<<"a">>, <<pre \o <<"b">>, PathZ>>)>>,
         <<newGo, BadImports(<<"a">>)>>,
         <<newGo, Src(<<"other">>, <<>>)>>,
         <<File(DirA, <<"a", ".go">>), Src(<<"a">>, <<PathZ>>)>>,
         <<xTest, Src(<<"a">>, <<>>)>>,
         <<xTest, Src(<<"a", "_test">>, <<pre \o <<"a">>>>)>>,
         <<File(DirA, <<"bad", ".go">>), NoPackageClause>>,
         <<File(DirB, <<"new", ".go">>), Src(<<"b">>, <<>>)>>,
         <<File(DirB, <<"b", "_test.go">>), Src(<<"b">>, <<PathZ>>)>>,
         <<File(DirU, <<"u", ".go">>), Src(<<"u">>, <<>>)>>,
         <<File(DirU, <<"u", "_test.go">>), Src(<<"u">>, <<>>)>>}

\* The overlays: maps from at most MaxOverlay paths to contents.
Overlays(pre) ==
    LET U == OverlayUniverse(pre)
        picks == {S \in SUBSET U :
                     /\ Cardinality(S) <= MaxOverlay
                     /\ \A x, y \in S : x[1] = y[1] => x = y}
    IN  {[f \in {x[1] : x \in S} |-> (CHOOSE x \in S : x[1] = f)[2]] : S \in picks}

----------------------------------------------------------------------------
\* processGolistOverlay, one action per step of its loop.

rootVars == <<rootsOnce, rootDirs, rootDirsError, computed>>

sessionVars == <<overlay, goEnv, goList>>

callerVars == <<cpc, cres, calls>>

harnessVars == <<rin, rout, first, second>>

resultVars == <<modifiedPkgs, needPkgs, err>>

IdleCallers ==
    /\ cpc = [c \in 1..NCallers |-> "idle"]
    /\ cres = [c \in 1..NCallers |-> NoRoots]
    /\ calls = [c \in 1..NCallers |-> 0]

IdleHarness ==
    /\ rin = <<>>
    /\ rout = <<>>
    /\ first = <<>>
    /\ second = <<>>

IdleOverlay ==
    /\ pc = "idle"
    /\ run = 0
    /\ todo = {}
    /\ havePkgs = EmptyMap
    /\ modifiedPkgsSet = {}
    /\ overlayAddsImports = FALSE
    /\ fallbackImps = {}
    /\ modifiedPkgs = <<>>
    /\ needPkgs = <<>>
    /\ err = NoErr

FreshRoots ==
    /\ rootsOnce = "new"
    /\ rootDirs = EmptyMap
    /\ rootDirsError = NoErr
    /\ computed = 0

Init ==
    /\ \E s \in Sessions :
        /\ goEnv = s.env
        /\ goList = s.out
        /\ pkgs \in PkgLists(s.prefix)
        /\ overlay \in Overlays(s.prefix)
    /\ before = pkgs
    /\ FreshRoots
    /\ IdleOverlay
    /\ IdleCallers
    /\ IdleHarness

\* Lines 19-34: a call begins.
CallBegins ==
    /\ pc' = "loop"
    /\ run' = run + 1
    /\ before' = pkgs
    /\ todo' = DOMAIN overlay
    /\ havePkgs' = buildHavePkgs(pkgs, 1, EmptyMap)
    /\ modifiedPkgsSet' = {}
    /\ overlayAddsImports' = FALSE
    /\ fallbackImps' = {}
    /\ modifiedPkgs' = <<>>
    /\ needPkgs' = <<>>
    /\ err' = NoErr
    /\ UNCHANGED <<pkgs, sessionVars, rootVars, callerVars, harnessVars>>

Begin ==
    /\ pc = "idle"
    /\ CallBegins

\* The caller runs processGolistOverlay again, on the same response and
\* the same overlay.
Rerun ==
    /\ pc = "done"
    /\ run < MaxRuns
    /\ CallBegins

Parsed(o) == extractPackageName(overlay[o])

Found(o) == FindPackage(pkgs, o, Parsed(o).name)

RootCall == determineRootDirs(goEnv, goList, rootsOnce, rootDirs, rootDirsError, computed)

AfterRootCall ==
    /\ rootsOnce' = RootCall.once
    /\ rootDirs' = RootCall.dirs
    /\ rootDirsError' = RootCall.derr
    /\ computed' = RootCall.n

Record(o, r) ==
    /\ pkgs' = r.pkgs
    /\ modifiedPkgsSet' = modifiedPkgsSet \cup r.modified
    /\ overlayAddsImports' = (overlayAddsImports \/ r.adds)
    /\ fallbackImps' = fallbackImps \cup r.fallback
    /\ todo' = todo \ {o}

\* Lines 43-48: no parsable package clause, continue.
SkipUnparsable(o) ==
    /\ pc = "loop"
    /\ o \in todo
    /\ ~Parsed(o).ok
    /\ todo' = todo \ {o}
    /\ UNCHANGED <<pkgs, pc, run, before, havePkgs, modifiedPkgsSet,
                   overlayAddsImports, fallbackImps, resultVars,
                   sessionVars, rootVars, callerVars, harnessVars>>

\* Lines 49-83 and 122-151: the file has a home among the loaded packages.
AttachMatched(o) ==
    /\ pc = "loop"
    /\ o \in todo
    /\ Parsed(o).ok
    /\ Found(o).pkg # 0
    /\ Record(o, attachAndImport(pkgs, havePkgs, Found(o).pkg,
                  Found(o).testVariantOf, Found(o).fileExists, o, overlay[o]))
    /\ UNCHANGED <<pc, run, before, havePkgs, resultVars,
                   sessionVars, rootVars, callerVars, harnessVars>>

\* Lines 85-91: no home, and the root directories cannot be determined.
FailRootDirs(o) ==
    /\ pc = "loop"
    /\ o \in todo
    /\ Parsed(o).ok
    /\ Found(o).pkg = 0
    /\ RootCall.res.err # NoErr
    /\ AfterRootCall
    /\ pc' = "done"
    /\ modifiedPkgs' = <<>>
    /\ needPkgs' = <<>>
    /\ err' = RootCall.res.err
    /\ todo' = todo \ {o}
    /\ UNCHANGED <<pkgs, run, before, havePkgs, modifiedPkgsSet,
                   overlayAddsImports, fallbackImps,
                   sessionVars, callerVars, harnessVars>>

\* Lines 92-94: no home and no root covers the directory: break.
AbandonUncovered(o) ==
    /\ pc = "loop"
    /\ o \in todo
    /\ Parsed(o).ok
    /\ Found(o).pkg = 0
    /\ RootCall.res.err = NoErr
    /\ getPkgPath(RootCall.res.dirs, Dir(o)) = {}
    /\ AfterRootCall
    /\ pc' = "needed"
    /\ todo' = todo \ {o}
    /\ UNCHANGED <<pkgs, run, before, havePkgs, modifiedPkgsSet,
                   overlayAddsImports, fallbackImps, resultVars,
                   sessionVars, callerVars, harnessVars>>

\* Lines 95-151: no home: reclaim or create the package, then attach.
Synthesize(o) ==
    /\ pc = "loop"
    /\ o \in todo
    /\ Parsed(o).ok
    /\ Found(o).pkg = 0
    /\ RootCall.res.err = NoErr
    /\ \E rootPath \in getPkgPath(RootCall.res.dirs, Dir(o)) :
        LET s == synthesize(pkgs, havePkgs, Found(o).testVariantOf, o,
                            overlay[o], rootPath)
        IN  /\ havePkgs' = s.have
            /\ Record(o, attachAndImport(s.pkgs, s.have, s.pkg,
                          Found(o).testVariantOf, FALSE, o, overlay[o]))
    /\ AfterRootCall
    /\ UNCHANGED <<pc, run, before, resultVars,
                   sessionVars, callerVars, harnessVars>>

\* Lines 166-187: the loop is over; the needed pass and the results.
NeededPass ==
    /\ \/ pc = "needed"
       \/ pc = "loop" /\ todo = {}
    /\ pc' = "done"
    /\ modifiedPkgs' \in Perms(modifiedPkgsSet)
    /\ needPkgs' \in neededOut(overlayAddsImports, neededSet(pkgs, havePkgs))
    /\ err' = NoErr
    /\ UNCHANGED <<pkgs, run, before, todo, havePkgs, modifiedPkgsSet,
                   overlayAddsImports, fallbackImps,
                   sessionVars, rootVars, callerVars, harnessVars>>

Next ==
    \/ Begin
    \/ \E o \in DOMAIN overlay : SkipUnparsable(o)
    \/ \E o \in DOMAIN overlay : AttachMatched(o)
    \/ \E o \in DOMAIN overlay : FailRootDirs(o)
    \/ \E o \in DOMAIN overlay : AbandonUncovered(o)
    \/ \E o \in DOMAIN overlay : Synthesize(o)
    \/ NeededPass

Spec == Init /\ [][Next]_vars

NextRerun ==
    \/ Next
    \/ Rerun

SpecRerun == Init /\ [][NextRerun]_vars

----------------------------------------------------------------------------
\* Properties of processGolistOverlay.

Returned == pc = "done"

ReturnedOk == pc = "done" /\ err = NoErr

Count(s, x) == Cardinality({i \in DOMAIN s : s[i] = x})

Listed(P, o) == \E i \in DOMAIN P : \E k \in DOMAIN P[i].GoFiles : P[i].GoFiles[k] = o

\* Overlay file o parses and package list P holds a home for it.
HasHome(P, o) ==
    /\ overlay[o].pkgOk
    /\ FindPackage(P, o, overlay[o].pkgName).pkg # 0

\* Overlay file o matches no package and no root covers its directory.
Uncovered(o) ==
    /\ overlay[o].pkgOk
    /\ ~HasHome(pkgs, o)
    /\ goEnv.err = NoErr
    /\ computeRoots(goEnv, goList).err = NoErr
    /\ getPkgPath(computeRoots(goEnv, goList).dirs, Dir(o)) = {}

\* C1: an overlay file that matches no package and that no root covers is
\* abandoned alone: the call returns no error, and every other overlay file
\* is still visited, so that each file with a home among the loaded packages
\* is listed by a package when the call returns.
C1_OnlyUncoveredFileAbandoned ==
    ReturnedOk =>
        /\ todo = {}
        /\ \A o \in DOMAIN overlay : HasHome(before, o) => Listed(pkgs, o)

\* C2: visiting an overlay file whose package clause does not parse changes
\* no package, marks no package modified, adds no import and leaves
\* havePkgs, from which the needed output is computed, as it was.
C2_UnparsableFileChangesNothing ==
    [][\A o \in DOMAIN overlay :
          (pc = "loop" /\ o \in todo /\ ~overlay[o].pkgOk /\ todo' = todo \ {o})
              => /\ pkgs' = pkgs
                 /\ modifiedPkgsSet' = modifiedPkgsSet
                 /\ overlayAddsImports' = overlayAddsImports
                 /\ havePkgs' = havePkgs
                 /\ pc' = "loop"]_vars

\* C2 witness: the loop has visited an unparsable file of an overlay that
\* holds a parsable file too, next to a loaded package.
C2_Witness ==
    /\ pc = "loop"
    /\ Len(pkgs) > 0
    /\ \E o \in DOMAIN overlay : ~overlay[o].pkgOk /\ o \notin todo
    /\ \E o \in DOMAIN overlay : overlay[o].pkgOk

\* Overlay file o sits in the directory of a file of a package of P that
\* declares the package name of o.
InPackageDir(P, o) ==
    /\ overlay[o].pkgOk
    /\ \E i \in DOMAIN P :
          /\ P[i].Name = overlay[o].pkgName
          /\ \E k \in DOMAIN P[i].GoFiles : Dir(P[i].GoFiles[k]) = Dir(o)

\* The call so far has appended overlay file o to a file list.
AppendedInCall(o) ==
    \E i \in DOMAIN pkgs :
        \/ Count(pkgs[i].GoFiles, o) >
              (IF i \in DOMAIN before THEN Count(before[i].GoFiles, o) ELSE 0)
        \/ Count(pkgs[i].CompiledGoFiles, o) >
              (IF i \in DOMAIN before THEN Count(before[i].CompiledGoFiles, o) ELSE 0)

\* C3: an overlay file in the directory of a package of its name is listed
\* at most once by each file list however often the call runs, and a second
\* run that returns without error has appended it nowhere and marked no
\* package modified.
C3_SecondRunAppendsNothing ==
    /\ \A o \in DOMAIN overlay : InPackageDir(before, o) =>
          \A i \in DOMAIN pkgs :
              /\ Count(pkgs[i].GoFiles, o) <= 1
              /\ Count(pkgs[i].CompiledGoFiles, o) <= 1
    /\ (ReturnedOk /\ run >= 2) =>
          /\ \A o \in DOMAIN overlay : InPackageDir(before, o) => ~AppendedInCall(o)
          /\ (\A o \in DOMAIN overlay : overlay[o].pkgOk => InPackageDir(before, o))
                => modifiedPkgsSet = {}

\* The root directories of the session resolve, and the import paths they
\* give the directory of overlay file o.
RootsResolve == goEnv.err = NoErr /\ computeRoots(goEnv, goList).err = NoErr

RootPaths(o) == getPkgPath(computeRoots(goEnv, goList).dirs, Dir(o))

\* The step taken is the loop's visit of overlay file o.
Visits(o) == pc = "loop" /\ o \in todo /\ todo' = todo \ {o}

\* The packages that declare the name of o (or are command-line-arguments)
\* and hold a file in its directory.
Candidates(o) ==
    {i \in DOMAIN pkgs :
        /\ pkgs[i].Name = overlay[o].pkgName \/ pkgs[i].ID = CommandLineArguments
        /\ \E k \in DOMAIN pkgs[i].GoFiles : Dir(pkgs[i].GoFiles[k]) = Dir(o)}

IsVariantID(id) == IndexByte(id, " ") # 0

\* o is a test file of a non-external test package, its directory holds one
\* package, which has no test files, and no test variant is loaded.
TestOfProduction(o) ==
    /\ overlay[o].pkgOk
    /\ IsTestFileName(o)
    /\ ~HasSuffix(overlay[o].pkgName, TestSuffix)
    /\ Cardinality(Candidates(o)) = 1
    /\ \A i \in Candidates(o) : ~hasTestFiles(pkgs[i])
    /\ \A i \in DOMAIN pkgs : IsVariantID(pkgs[i].ID) =>
          toPkgPath(pkgs[i].ID) \notin
              {pkgs[c].PkgPath : c \in Candidates(o)} \cup RootPaths(o)

\* The step appended a package <path> [<path>.test], path in paths, that
\* lists the production package's files and then o, and left the
\* production package's lists alone.
TestVariantCreated(o, paths) ==
    /\ Len(pkgs') = Len(pkgs) + 1
    /\ LET new == pkgs'[Len(pkgs')] IN
       \A i \in Candidates(o) :
          /\ new.PkgPath \in paths
          /\ new.ID = new.PkgPath \o <<" ", "[">> \o new.PkgPath \o <<".test", "]">>
          /\ new.GoFiles = pkgs[i].GoFiles \o <<o>>
          /\ new.CompiledGoFiles = pkgs[i].CompiledGoFiles \o <<o>>
          /\ pkgs'[i].GoFiles = pkgs[i].GoFiles
          /\ pkgs'[i].CompiledGoFiles = pkgs[i].CompiledGoFiles
          /\ new.ID \in modifiedPkgsSet'

AnyPath == {p.PkgPath : p \in Range(pkgs')}

C5_FallbackImportAlwaysNeeded ==
    ReturnedOk => \A imp \in fallbackImps : Count(needPkgs, imp) = 1

\* C5 amended: when the call returns without error, every import path that
\* took the `id = imp` fallback and that is still no key of havePkgs (no
\* package of that path was created later in the call) is in the needed
\* output exactly once, and the needed output repeats no path.
C5_UnresolvedImportNeededOnce ==
    ReturnedOk =>
        /\ \A imp \in fallbackImps :
              imp \notin DOMAIN havePkgs => Count(needPkgs, imp) = 1
        /\ \A k \in DOMAIN needPkgs : Count(needPkgs, needPkgs[k]) = 1

\* C5 witness: a returned call needs a path that took the fallback, while
\* another path that took it was resolved by a package created later.
C5_Witness ==
    /\ ReturnedOk
    /\ \E imp \in fallbackImps : imp \notin DOMAIN havePkgs /\ Count(needPkgs, imp) = 1
    /\ \E imp \in fallbackImps : imp \in DOMAIN havePkgs

\* The call so far has added an import path to a package's import map.
ImportAdded ==
    \E i \in DOMAIN pkgs :
        DOMAIN pkgs[i].Imports #
            (IF i \in DOMAIN before THEN DOMAIN before[i].Imports ELSE {})

\* C6: a call in which no overlay file added an import to its package
\* returns an empty needed output, whatever it attached or created and
\* whatever unresolved import edges the loaded packages carry.
C6_NoNewImportNoNeeded ==
    (Returned /\ ~ImportAdded) => needPkgs = <<>>

\* C6 witness: a returned call attached a file, added no import, and a
\* loaded package carries an import edge whose path havePkgs lacks.
C6_Witness ==
    /\ ReturnedOk
    /\ ~ImportAdded
    /\ modifiedPkgs # <<>>
    /\ neededSet(pkgs, havePkgs) # {}
    /\ needPkgs = <<>>

\* An error-only placeholder: one error, no name, no export file, no files,
\* no imports.
Placeholder(p) ==
    /\ Len(p.Errors) = 1
    /\ p.Name = <<>>
    /\ p.ExportFile = <<>>
    /\ p.GoFiles = <<>> /\ p.CompiledGoFiles = <<>> /\ p.OtherFiles = <<>>
    /\ DOMAIN p.Imports = {}

\* The identifiers the roots give a new package of overlay file o.
ComputedIDs(o) == {newPkgID(path, overlay[o].pkgName, o) : path \in RootPaths(o)}

PlaceholdersFor(o) ==
    {i \in DOMAIN pkgs : Placeholder(pkgs[i]) /\ pkgs[i].ID \in ComputedIDs(o)}

\* C8: an overlay file without a home whose computed identifier is that of
\* a loaded error-only placeholder reclaims the placeholder: no package is
\* added, the placeholder gets the declared name, loses its error, lists
\* the overlay file in both file lists and is marked modified.
C8_PlaceholderReclaimed ==
    [][\A o \in DOMAIN overlay :
          (/\ Visits(o)
           /\ overlay[o].pkgOk
           /\ Candidates(o) = {}
           /\ RootsResolve
           /\ PlaceholdersFor(o) # {})
              => /\ Len(pkgs') = Len(pkgs)
                 /\ \E i \in PlaceholdersFor(o) :
                       /\ pkgs'[i].Name = overlay[o].pkgName
                       /\ pkgs'[i].Errors = <<>>
                       /\ pkgs'[i].GoFiles = <<o>>
                       /\ pkgs'[i].CompiledGoFiles = <<o>>
                       /\ pkgs'[i].ID = pkgs[i].ID
                       /\ pkgs[i].ID \in modifiedPkgsSet']_vars

\* C8 witness: a package that was a placeholder when the call began now has
\* a name, no error and an overlay file.
C8_Witness ==
    \E i \in DOMAIN before : \E o \in DOMAIN overlay :
        /\ Placeholder(before[i])
        /\ pkgs[i].Name = overlay[o].pkgName
        /\ pkgs[i].Errors = <<>>
        /\ pkgs[i].GoFiles = <<o>>
        /\ pkgs[i].ID \in modifiedPkgsSet
        /\ Len(pkgs) = Len(before)

\* C9: a call that returns the root resolution error returns no modified
\* and no needed identifier and leaves the packages as they were when the
\* call began.
C9_FatalErrorLeavesNoPartialResult ==
    (Returned /\ err # NoErr) =>
        /\ modifiedPkgs = <<>>
        /\ needPkgs = <<>>
        /\ pkgs = before

----------------------------------------------------------------------------
\* determineRootDirs under concurrent and repeated callers.  A caller is at
\* "idle", "do" (at rootsOnce.Do), "run" (inside the function handed to Do),
\* "unlock" (the function has assigned its results), "read" (Do returned) or
\* "ret" (returned).

Callers == 1..NCallers

overlayVars == <<pkgs, overlay, pc, run, before, todo, havePkgs, modifiedPkgsSet,
                 overlayAddsImports, fallbackImps, modifiedPkgs, needPkgs, err>>

InitRoots ==
    /\ \E s \in RootSessions :
        /\ goEnv = s.env
        /\ goList = s.out
    /\ pkgs = <<>>
    /\ overlay = EmptyMap
    /\ before = pkgs
    /\ FreshRoots
    /\ IdleOverlay
    /\ IdleCallers
    /\ IdleHarness

\* Lines 202-205: getEnv fails and the caller returns its error.
EnvFails(c) ==
    /\ cpc[c] \in {"idle", "ret"}
    /\ calls[c] < MaxCalls
    /\ goEnv.err # NoErr
    /\ calls' = [calls EXCEPT ![c] = @ + 1]
    /\ cres' = [cres EXCEPT ![c] = [dirs |-> EmptyMap, err |-> goEnv.err]]
    /\ cpc' = [cpc EXCEPT ![c] = "ret"]
    /\ UNCHANGED <<overlayVars, sessionVars, rootVars, harnessVars>>

\* Lines 202-206: getEnv succeeds and the caller reaches rootsOnce.Do.
EnvOk(c) ==
    /\ cpc[c] \in {"idle", "ret"}
    /\ calls[c] < MaxCalls
    /\ goEnv.err = NoErr
    /\ calls' = [calls EXCEPT ![c] = @ + 1]
    /\ cpc' = [cpc EXCEPT ![c] = "do"]
    /\ UNCHANGED <<cres, overlayVars, sessionVars, rootVars, harnessVars>>

\* rootsOnce.Do: the first caller enters the function.
OnceBegin(c) ==
    /\ cpc[c] = "do"
    /\ OnceRuns(rootsOnce)
    /\ rootsOnce' = "running"
    /\ cpc' = [cpc EXCEPT ![c] = "run"]
    /\ UNCHANGED <<rootDirs, rootDirsError, computed, cres, calls,
                   overlayVars, sessionVars, harnessVars>>

\* rootsOnce.Do: the function has completed, Do returns at once.  A caller
\* finding the function running waits here.
OncePass(c) ==
    /\ cpc[c] = "do"
    /\ rootsOnce = "done"
    /\ cpc' = [cpc EXCEPT ![c] = "read"]
    /\ UNCHANGED <<rootVars, cres, calls, overlayVars, sessionVars, harnessVars>>

\* Lines 207-209: module mode.
ComputeModules(c) ==
    /\ cpc[c] = "run"
    /\ goEnv.GOMOD # <<>>
    /\ rootDirs' = determineRootDirsModules(goList).dirs
    /\ rootDirsError' = determineRootDirsModules(goList).err
    /\ computed' = computed + 1
    /\ cpc' = [cpc EXCEPT ![c] = "unlock"]
    /\ UNCHANGED <<rootsOnce, cres, calls, overlayVars, sessionVars, harnessVars>>

\* Lines 211-213: legacy mode.
ComputeGOPATH(c) ==
    /\ cpc[c] = "run"
    /\ goEnv.GOMOD = <<>>
    /\ rootDirs' = determineRootDirsGOPATH(goEnv).dirs
    /\ rootDirsError' = determineRootDirsGOPATH(goEnv).err
    /\ computed' = computed + 1
    /\ cpc' = [cpc EXCEPT ![c] = "unlock"]
    /\ UNCHANGED <<rootsOnce, cres, calls, overlayVars, sessionVars, harnessVars>>

\* rootsOnce.Do: the function returned; the latch is done.
OnceDone(c) ==
    /\ cpc[c] = "unlock"
    /\ rootsOnce' = "done"
    /\ cpc' = [cpc EXCEPT ![c] = "read"]
    /\ UNCHANGED <<rootDirs, rootDirsError, computed, cres, calls,
                   overlayVars, sessionVars, harnessVars>>

\* Line 215.
ReturnRoots(c) ==
    /\ cpc[c] = "read"
    /\ cres' = [cres EXCEPT ![c] = [dirs |-> rootDirs, err |-> rootDirsError]]
    /\ cpc' = [cpc EXCEPT ![c] = "ret"]
    /\ UNCHANGED <<rootVars, calls, overlayVars, sessionVars, harnessVars>>

NextRoots ==
    \/ \E c \in Callers : EnvFails(c)
    \/ \E c \in Callers : EnvOk(c)
    \/ \E c \in Callers : OnceBegin(c)
    \/ \E c \in Callers : OncePass(c)
    \/ \E c \in Callers : ComputeModules(c)
    \/ \E c \in Callers : ComputeGOPATH(c)
    \/ \E c \in Callers : OnceDone(c)
    \/ \E c \in Callers : ReturnRoots(c)

SpecRoots == InitRoots /\ [][NextRoots]_vars

\* C10 as stated: the root computation runs at most once, and every caller
\* that has returned did so after it completed, with its map and error.
C10_EveryCallerAwaitsTheComputation ==
    /\ computed <= 1
    /\ \A c \in Callers : cpc[c] = "ret" =>
          /\ rootsOnce = "done"
          /\ computed = 1
          /\ cres[c] = computeRoots(goEnv, goList)

\* C10 amended: the root computation runs at most once, failed or not; a
\* caller whose getEnv succeeded has returned only after the computation
\* completed and with its map and error; a caller whose getEnv failed has
\* returned that error, and no computation has run.
C10_OneComputationSharedByCallers ==
    /\ computed <= 1
    /\ \A c \in Callers : cpc[c] = "ret" =>
          IF goEnv.err = NoErr
          THEN /\ rootsOnce = "done"
               /\ computed = 1
               /\ cres[c] = computeRoots(goEnv, goList)
          ELSE /\ cres[c] = [dirs |-> EmptyMap, err |-> goEnv.err]
               /\ computed = 0

\* C10 witness: every caller has returned the error of a failed computation
\* that ran once, one of them from its second call.
C10_Witness ==
    /\ \A c \in Callers : cpc[c] = "ret" /\ cres[c].err = rootDirsError
    /\ rootDirsError # NoErr
    /\ computed = 1
    /\ \E c \in Callers : calls[c] >= 2

----------------------------------------------------------------------------
\* reclaimPackage on candidates of every shape.

MaxErrors == 2

TargetID == <<"m", "b">>

ReclaimInputs ==
    LET f == File(DirB, <<"b", ".go">>)
        files == {<<>>, <<f>>}
    IN  [p : [ID : {TargetID, <<"m", "c">>},
              PkgPath : {TargetID},
              Name : {<<>>, <<"b">>},
              GoFiles : files,
              CompiledGoFiles : files,
              OtherFiles : files,
              ExportFile : {<<>>, <<"b", ".a">>},
              Imports : {EmptyMap, Put(EmptyMap, PathZ, PathZ)},
              Errors : {[k \in 1..n |-> "not found"] : n \in 0..MaxErrors}],
         id : {TargetID},
         contents : {Src(<<"b">>, <<>>), NoPackageClause}]

InitReclaim ==
    /\ rin \in ReclaimInputs
    /\ rout = <<>>
    /\ first = <<>>
    /\ second = <<>>
    /\ goEnv = FailedEnv
    /\ goList = FailedList
    /\ pkgs = <<>>
    /\ overlay = EmptyMap
    /\ before = pkgs
    /\ FreshRoots
    /\ IdleOverlay
    /\ IdleCallers

Reclaim ==
    /\ rin # <<>>
    /\ rout = <<>>
    /\ rout' = reclaimPackage(rin.p, rin.id, rin.contents)
    /\ UNCHANGED <<rin, first, second, overlayVars, sessionVars, rootVars, callerVars>>

NextReclaim == Reclaim

SpecReclaim == InitReclaim /\ [][NextReclaim]_vars

\* The candidate of the call is no placeholder for the target identifier,
\* or the overlay's package clause does not parse.
Ineligible ==
    \/ rin.p.ID # rin.id
    \/ Len(rin.p.Errors) # 1
    \/ rin.p.Name # <<>>
    \/ rin.p.ExportFile # <<>>
    \/ rin.p.GoFiles # <<>>
    \/ rin.p.CompiledGoFiles # <<>>
    \/ rin.p.OtherFiles # <<>>
    \/ DOMAIN rin.p.Imports # {}
    \/ ~rin.contents.pkgOk

\* C7: reclaimPackage refuses every candidate that has no error or more
\* than one, a name, an export file, a file of any kind or an import, or
\* another identifier, and every overlay whose package clause does not
\* parse; refusing, it returns false and leaves the candidate unchanged.
C7_ReclaimRefusesNonPlaceholders ==
    (rout # <<>> /\ Ineligible) =>
        /\ ~rout.ok
        /\ rout.pkg.Name = rin.p.Name
        /\ rout.pkg.Errors = rin.p.Errors

\* C7 witness: reclaimPackage has refused a candidate of the target
\* identifier that is empty but for its two errors.
C7_Witness ==
    /\ rout # <<>>
    /\ ~rout.ok
    /\ rin.p.ID = rin.id
    /\ Len(rin.p.Errors) = 2
    /\ rin.p.Name = <<>> /\ rin.p.ExportFile = <<>>
    /\ rin.p.GoFiles = <<>> /\ rin.p.CompiledGoFiles = <<>> /\ rin.p.OtherFiles = <<>>
    /\ DOMAIN rin.p.Imports = {}
    /\ rin.contents.pkgOk

----------------------------------------------------------------------------
\* Frame properties of the overlay loop.

IsPrefix(s, t) == Len(s) <= Len(t) /\ SubSeq(t, 1, Len(s)) = s

\* C11: no step of processGolistOverlay deletes or shrinks a package: every
\* package keeps its place, identifier and import path, its regular and
\* compiled file lists keep the earlier lists as a prefix, every key of its
\* import map stays a key, its other files and export file are untouched,
\* and its errors and name change only when it is a reclaimed placeholder,
\* which loses its single error and gets its name.
C11_NoPackageDeletedOrShrunk ==
    [][\A i \in DOMAIN pkgs :
          /\ i \in DOMAIN pkgs'
          /\ pkgs'[i].ID = pkgs[i].ID
          /\ pkgs'[i].PkgPath = pkgs[i].PkgPath
          /\ IsPrefix(pkgs[i].GoFiles, pkgs'[i].GoFiles)
          /\ IsPrefix(pkgs[i].CompiledGoFiles, pkgs'[i].CompiledGoFiles)
          /\ DOMAIN pkgs[i].Imports \subseteq DOMAIN pkgs'[i].Imports
          /\ pkgs'[i].OtherFiles = pkgs[i].OtherFiles
          /\ pkgs'[i].ExportFile = pkgs[i].ExportFile
          /\ \/ pkgs'[i].Errors = pkgs[i].Errors /\ pkgs'[i].Name = pkgs[i].Name
             \/ Placeholder(pkgs[i]) /\ pkgs'[i].Errors = <<>>]_vars

\* C11 witness: the call has extended both the file list and the import
\* map of a loaded package that had files and imports, and has reclaimed a
\* placeholder.
C11_Witness ==
    /\ \E i \in DOMAIN before :
          /\ Len(before[i].GoFiles) > 0
          /\ Len(pkgs[i].GoFiles) > Len(before[i].GoFiles)
          /\ DOMAIN before[i].Imports # {}
          /\ DOMAIN pkgs[i].Imports # DOMAIN before[i].Imports
    /\ \E i \in DOMAIN before : Placeholder(before[i]) /\ pkgs[i].Errors = <<>>

\* No two packages of P share an identifier.
IDsUnique(P) == \A i, j \in DOMAIN P : i # j => P[i].ID # P[j].ID

\* At most one non-test-variant and at most one test-variant package of P
\* per import path.
VariantsUnique(P) ==
    \A i, j \in DOMAIN P :
        (i # j /\ P[i].PkgPath = P[j].PkgPath)
            => IsVariantID(P[i].ID) # IsVariantID(P[j].ID)

\* C12: a package set that holds, when the call begins, no two packages of
\* one identifier and at most one non-test-variant and one test-variant
\* package per import path still does at every point of the call: no
\* package is synthesized under the identifier of a package of the set.
C12_VariantUniquenessPreserved ==
    (IDsUnique(before) /\ VariantsUnique(before))
        => (IDsUnique(pkgs) /\ VariantsUnique(pkgs))

\* The call so far has appended a file to the regular file list of package
\* i: a package of the call's beginning has a longer list, a package the
\* call created has an overlay file at the end of its list.
GainedFile(i) ==
    IF i \in DOMAIN before
    THEN Len(pkgs[i].GoFiles) > Len(before[i].GoFiles)
    ELSE /\ Len(pkgs[i].GoFiles) > 0
         /\ pkgs[i].GoFiles[Len(pkgs[i].GoFiles)] \in DOMAIN overlay

\* What the call so far has appended to list now, which was list was.
Gain(was, now) == SubSeq(now, Len(was) + 1, Len(now))

ListsBase(p, o) ==
    \E k \in DOMAIN p.GoFiles :
        Dir(p.GoFiles[k]) = Dir(o) /\ Base(p.GoFiles[k]) = Base(o)

\* C14: once the loop has visited an overlay file that resolved to a home
\* package, that package lists a file of the overlay's base name in the
\* overlay's directory: the matched package the search ended on, or the
\* package of the computed identifier that was reclaimed or created.
C14_ResolvedPackageListsTheFile ==
    [][\A o \in DOMAIN overlay :
          (Visits(o) /\ overlay[o].pkgOk /\ pc' = "loop")
              => IF Found(o).pkg # 0
                 THEN ListsBase(pkgs'[Found(o).pkg], o)
                 ELSE \E i \in DOMAIN pkgs' :
                         /\ pkgs'[i].ID \in ComputedIDs(o)
                         /\ ListsBase(pkgs'[i], o)]_vars

\* t and p are the two packages that match overlay file o by name and
\* directory; they share an import path, t has test files and p has none.
VariantAndBase(o, t, p) ==
    /\ t # p
    /\ Candidates(o) = {t, p}
    /\ pkgs[t].Name = overlay[o].pkgName
    /\ pkgs[p].Name = overlay[o].pkgName
    /\ pkgs[t].PkgPath = pkgs[p].PkgPath
    /\ hasTestFiles(pkgs[t])
    /\ ~hasTestFiles(pkgs[p])

\* The import paths of overlay file o, none when they do not parse.
ImportsOf(o) == Range(extractImports(overlay[o]).imports)

\* C15: when the two packages that match an overlay file share an import
\* path and one of them has test files, the search ends on the one with
\* test files and records the other as its base, whatever their order and
\* whether or not the overlay file is a test file: the file is listed by
\* the package with test files, the base's file lists are unchanged, no
\* package is added, and the imports the file adds are given to the base.
C15_TestVariantIsTheHome ==
    [][\A o \in DOMAIN overlay : \A t, p \in DOMAIN pkgs :
          (Visits(o) /\ overlay[o].pkgOk /\ VariantAndBase(o, t, p))
              => /\ Found(o).pkg = t
                 /\ Found(o).testVariantOf = p
                 /\ Len(pkgs') = Len(pkgs)
                 /\ ListsBase(pkgs'[t], o)
                 /\ pkgs'[p].GoFiles = pkgs[p].GoFiles
                 /\ pkgs'[p].CompiledGoFiles = pkgs[p].CompiledGoFiles
                 /\ \A imp \in ImportsOf(o) :
                       /\ imp \in DOMAIN pkgs'[t].Imports
                       /\ imp \notin DOMAIN pkgs[t].Imports
                             => imp \in DOMAIN pkgs'[p].Imports]_vars

\* C15 witness: the package with test files precedes its base in the list;
\* the call has appended a non-test overlay file to it and has given the
\* base an import of that file.
C15_Witness ==
    \E o \in DOMAIN overlay \ todo : \E t, p \in DOMAIN before :
        /\ t < p
        /\ ~IsTestFileName(o)
        /\ overlay[o].pkgOk
        /\ before[t].Name = overlay[o].pkgName
        /\ before[p].Name = overlay[o].pkgName
        /\ before[t].PkgPath = before[p].PkgPath
        /\ hasTestFiles(before[t])
        /\ ~hasTestFiles(before[p])
        /\ pkgs[t].GoFiles = Append(before[t].GoFiles, o)
        /\ pkgs[p].GoFiles = before[p].GoFiles
        /\ \E imp \in ImportsOf(o) :
              imp \in DOMAIN pkgs[p].Imports /\ imp \notin DOMAIN before[p].Imports

\* The package overlay file o resolved to, in the state after its step:
\* the package the search ended on, or the reclaimed or created package.
HomeAfter(o) ==
    IF Found(o).pkg # 0
    THEN {Found(o).pkg}
    ELSE {i \in DOMAIN pkgs' :
             pkgs'[i].ID \in ComputedIDs(o) /\ ListsBase(pkgs'[i], o)}

\* The import map of that package before the step.
HomeImportsBefore(o) ==
    IF Found(o).pkg # 0 THEN DOMAIN pkgs[Found(o).pkg].Imports ELSE {}

\* The last element of list s is x.
EndsWith(s, x) == Len(s) > 0 /\ s[Len(s)] = x

\* C16: the step of an overlay file that resolved to a package gives that
\* package, for each import path of the file that was no key of its import
\* map, an entry whose identifier is havePkgs[path] when havePkgs knows the
\* path and the path itself otherwise, gives the base package the same
\* entry when one was identified, and sets the new-imports flag; a file
\* whose imports do not parse changes no import map and not the flag, and
\* is appended to the package all the same unless the search found its
\* base name.
C16_NewImportsGetStubs ==
    [][\A o \in DOMAIN overlay :
          (Visits(o) /\ overlay[o].pkgOk /\ pc' = "loop")
              => \E h \in HomeAfter(o) :
                  LET new == ImportsOf(o) \ HomeImportsBefore(o)
                      tvo == Found(o).testVariantOf
                  IN  IF extractImports(overlay[o]).err = NoErr
                      THEN /\ \A imp \in new :
                                LET id == IF imp \in DOMAIN havePkgs'
                                          THEN havePkgs'[imp] ELSE imp
                                IN  /\ imp \in DOMAIN pkgs'[h].Imports
                                    /\ pkgs'[h].Imports[imp] = id
                                    /\ tvo # 0 =>
                                          /\ imp \in DOMAIN pkgs'[tvo].Imports
                                          /\ pkgs'[tvo].Imports[imp] = id
                           /\ new # {} => overlayAddsImports'
                      ELSE /\ \A i \in DOMAIN pkgs : pkgs'[i].Imports = pkgs[i].Imports
                           /\ DOMAIN pkgs'[h].Imports = HomeImportsBefore(o)
                           /\ overlayAddsImports' = overlayAddsImports
                           /\ ~Found(o).fileExists =>
                                 /\ EndsWith(pkgs'[h].GoFiles, o)
                                 /\ EndsWith(pkgs'[h].CompiledGoFiles, o)
                                 /\ pkgs'[h].ID \in modifiedPkgsSet']_vars

\* C16 witness: a package the call created has an import whose identifier
\* havePkgs supplied and differs from the path, and another import took
\* the path itself.
C16_Witness ==
    /\ overlayAddsImports
    /\ \E i \in DOMAIN pkgs : \E imp \in DOMAIN pkgs[i].Imports :
          /\ i \notin DOMAIN before
          /\ pkgs[i].Imports[imp] # imp
          /\ pkgs[i].Imports[imp] = havePkgs[imp]
    /\ fallbackImps # {}

\* The import paths of the packages of the set.
PkgPaths == {pkgs[i].PkgPath : i \in DOMAIN pkgs}

\* The import paths the overlay files reference.
OverlayImports == UNION {ImportsOf(o) : o \in DOMAIN overlay}

\* The text of identifier id before its first space.
PathOfID(id) ==
    IF \E k \in DOMAIN id : id[k] = " "
    THEN SubSeq(id, 1, (CHOOSE k \in DOMAIN id :
                           id[k] = " " /\ \A j \in 1..(k - 1) : id[j] # " ") - 1)
    ELSE id

\* C17 as stated: every path of the needed output is an import path of an
\* overlay file and the import path of no package of the set.
C17_NeededOnlyNewlyReferenced ==
    ReturnedOk =>
        \A k \in DOMAIN needPkgs :
            needPkgs[k] \in OverlayImports /\ needPkgs[k] \notin PkgPaths

\* C17 amended: every path of the needed output is the path of the target
\* of an import edge of a package of the set, whether an overlay file or
\* the lister gave the package that edge, and is the import path of no
\* package of the set; and the needed output is empty unless an overlay
\* file added an import in the call.
C17_NeededAreUnresolvedEdges ==
    ReturnedOk =>
        /\ \A k \in DOMAIN needPkgs :
              /\ \E i \in DOMAIN pkgs : \E imp \in DOMAIN pkgs[i].Imports :
                    PathOfID(pkgs[i].Imports[imp]) = needPkgs[k]
              /\ needPkgs[k] \notin PkgPaths
        /\ needPkgs # <<>> => ImportAdded

\* C17 witness: the needed output of a returned call holds a path an
\* overlay file references and a path none references, the target of an
\* edge a loaded package carried when the call began.
C17_Witness ==
    /\ ReturnedOk
    /\ \E k \in DOMAIN needPkgs : needPkgs[k] \in OverlayImports
    /\ \E k \in DOMAIN needPkgs :
          /\ needPkgs[k] \notin OverlayImports
          /\ \E i \in DOMAIN before : \E imp \in DOMAIN before[i].Imports :
                PathOfID(before[i].Imports[imp]) = needPkgs[k]

\* C18: no step changes the target of an import edge: an import path that
\* is a key of a package's import map keeps its target identifier, in the
\* resolved package and in the base package that receives mirrored imports.
C18_ImportTargetsKept ==
    [][\A i \in DOMAIN pkgs : \A imp \in DOMAIN pkgs[i].Imports :
          /\ i \in DOMAIN pkgs'
          /\ imp \in DOMAIN pkgs'[i].Imports
          /\ pkgs'[i].Imports[imp] = pkgs[i].Imports[imp]]_vars

----------------------------------------------------------------------------
\* processGolistOverlay as a function of the order in which the range loop
\* visits the overlay.  st is the call's state: the packages, havePkgs, the
\* latch and cache of the root directories, modifiedPkgsSet,
\* overlayAddsImports, the position and the error.

CallStart ==
    [pkgs |-> pkgs, have |-> buildHavePkgs(pkgs, 1, EmptyMap),
     once |-> rootsOnce, dirs |-> rootDirs, derr |-> rootDirsError, n |-> computed,
     modified |-> {}, adds |-> FALSE, pc |-> "loop", err |-> NoErr]

\* Lines 36-152 for overlay file o: the states the visit can end in, one
\* for each root that covers the directory.
visit(st, o) ==
    LET parsed == extractPackageName(overlay[o])
        found  == FindPackage(st.pkgs, o, parsed.name)
        rc     == determineRootDirs(goEnv, goList, st.once, st.dirs, st.derr, st.n)
        st1    == [st EXCEPT !.once = rc.once, !.dirs = rc.dirs,
                             !.derr = rc.derr, !.n = rc.n]
        paths  == getPkgPath(rc.res.dirs, Dir(o))
    IN  IF st.pc # "loop" \/ ~parsed.ok THEN {st}
        ELSE IF found.pkg # 0
        THEN LET r == attachAndImport(st.pkgs, st.have, found.pkg,
                          found.testVariantOf, found.fileExists, o, overlay[o])
             IN  {[st EXCEPT !.pkgs = r.pkgs,
                             !.modified = @ \cup r.modified,
                             !.adds = @ \/ r.adds]}
        ELSE IF rc.res.err # NoErr
        THEN {[st1 EXCEPT !.pc = "done", !.err = rc.res.err]}
        ELSE IF paths = {}
        THEN {[st1 EXCEPT !.pc = "needed"]}
        ELSE {LET s == synthesize(st.pkgs, st.have, found.testVariantOf, o,
                                  overlay[o], rootPath)
                  r == attachAndImport(s.pkgs, s.have, s.pkg,
                           found.testVariantOf, FALSE, o, overlay[o])
              IN  [st1 EXCEPT !.pkgs = r.pkgs,
                              !.have = s.have,
                              !.modified = @ \cup r.modified,
                              !.adds = @ \/ r.adds] : rootPath \in paths}

RECURSIVE visitAll(_, _, _)
visitAll(S, order, k) ==
    IF k > Len(order) THEN S
    ELSE visitAll(UNION {visit(st, order[k]) : st \in S}, order, k + 1)

\* Lines 166-187: what the call returns and leaves in the response.  The
\* packages are taken as a set and their file lists as sets, the position
\* of a package or a file being no part of the outcome.
outcome(st) ==
    [packages |-> {[ID |-> p.ID, Name |-> p.Name, Files |-> Range(p.GoFiles),
                    Imports |-> p.Imports] : p \in Range(st.pkgs)},
     modified |-> IF st.err # NoErr THEN {} ELSE st.modified,
     needed   |-> IF st.err = NoErr /\ st.adds
                  THEN neededSet(st.pkgs, st.have) ELSE {},
     err      |-> st.err,
     broke    |-> st.pc = "needed"]

Outcomes(order) == {outcome(st) : st \in visitAll({CallStart}, order, 1)}

\* The call runs under two visiting orders of the overlay, each from the
\* loaded packages and the session as they are.
CompareOrders ==
    /\ first = <<>>
    /\ \E o1, o2 \in Perms(DOMAIN overlay) :
          /\ first' \in Outcomes(o1)
          /\ second' \in Outcomes(o2)
    /\ UNCHANGED <<rin, rout, overlayVars, sessionVars, rootVars, callerVars>>

NextOrders == CompareOrders

SpecOrders == Init /\ [][NextOrders]_vars

\* C19: two visiting orders of the same overlay over the same loaded
\* packages, neither of which left the loop early or returned an error,
\* yield the same package identifiers, the same files and import edges per
\* package and the same modified and needed sets.
C19_VisitingOrderIsImmaterial ==
    (/\ first # <<>>
     /\ first.err = NoErr /\ second.err = NoErr
     /\ ~first.broke /\ ~second.broke)
        => first = second

====
